---- MODULE Spec2Model ----
(***************************************************************************)
(* Model of the agent decision core of rustjammers (src/src/agent.rs):     *)
(* the HumanIntent action codec, the simulation driver, and the            *)
(* RandomRollout, Dijkstra and TabularQLearning agents.                    *)
(*                                                                         *)
(* GameEngine, Vector2 and Frisbee are external collaborators of agent.rs; *)
(* they are represented by a small deterministic tick engine over a heap   *)
(* of engine objects, so that references (&GameEngine, &mut GameEngine)    *)
(* and owned copies (copy_in) are distinguishable.                         *)
(***************************************************************************)
EXTENDS Integers, Sequences, FiniteSets, TLC

VARIABLES
    pc,          \* position of the running operation
    side,        \* PlayerSide the agent acts for
    heap,        \* engine objects: id -> GameEngine value
    next_id,     \* next unused engine id
    fresh,       \* state_of_game of GameEngine::new()
    live0,       \* value of the live engine when act was called
    flags_in,    \* HumanIntent argument of the codec operations
    idx_in,      \* u8 argument of human_intent_from_index
    out,         \* results of the codec operations
    sim,         \* RandomRolloutAgent.sim
    frames,      \* RandomRolloutAgent.frames
    rep,         \* index of the current repetition of the rollout loop
    ci,          \* index of the next candidate intent
    prev,        \* RandomRolloutAgent::act local `prev`
    evals,       \* candidates evaluated so far, <<intent, score>>
    new_engine,  \* id of act's local `new_engine`
    nodes,       \* Vec<Node>
    stack,       \* call stack of simulation_dij
    best,        \* DijkstraAgent::act local `best`
    pick,        \* DijkstraAgent::act locals `cost`, `intent` and loop index
    q_values,    \* engine.q_values restricted to the hashes of the model
    explo_rate,  \* engine.explo_rate in percent
    stepped,     \* ids of the engine objects step or epoch was applied to
    idle_log,    \* state_of_game before each epoch of the last simulation call
    result       \* value returned by act

vars == <<pc, side, heap, next_id, fresh, live0, flags_in, idx_in, out, sim,
          frames, rep, ci, prev, evals, new_engine, nodes, stack, best, pick,
          q_values, explo_rate, stepped,
          idle_log, result>>

(***************************************************************************)
(* Bounds of the model.                                                    *)
(***************************************************************************)
MaxSim == 2
MaxFrames == 1
MaxTime == 2
MaxCost == 2
MaxNodes == 3

(***************************************************************************)
(* Basic types.                                                            *)
(***************************************************************************)
Sides == {"Left", "Right"}

Other(s) == IF s = "Left" THEN "Right" ELSE "Left"

SideIx(s) == IF s = "Left" THEN 1 ELSE 2

ThrowDirections == <<"Up", "LightUp", "Middle", "LightDown", "Down">>

U8Max == 255

I8Min == -128

I8Max == 127

WrapI8(x) == ((x - I8Min) % (I8Max - I8Min + 1)) + I8Min

(***************************************************************************)
(* Vector2, in fixed point: 1.0 is VUnit.                                  *)
(***************************************************************************)
VUnit == 10

VZero == <<0, 0>>

Vec(x, y) == <<x * VUnit, y * VUnit>>

VAdd(a, b) == <<a[1] + b[1], a[2] + b[2]>>

VSub(a, b) == <<a[1] - b[1], a[2] - b[2]>>

LengthSq(v) == v[1] * v[1] + v[2] * v[2]

ISqrt(n) == CHOOSE r \in 0..(2 * VUnit) : r * r <= n /\ n < (r + 1) * (r + 1)

Sgn(x) == IF x > 0 THEN 1 ELSE IF x < 0 THEN -1 ELSE 0

Abs(x) == IF x < 0 THEN -x ELSE x

Normalized(v) ==
    LET len == ISqrt(LengthSq(v))
    IN  IF len = 0 THEN v
        ELSE <<Sgn(v[1]) * ((Abs(v[1]) * VUnit) \div len),
               Sgn(v[2]) * ((Abs(v[2]) * VUnit) \div len)>>

(***************************************************************************)
(* Intent (agent.rs:19-25).                                                *)
(***************************************************************************)
IntentNone == [type |-> "None", dir |-> VZero, tdir |-> "-"]

IntentMove(v) == [type |-> "Move", dir |-> v, tdir |-> "-"]

IntentDash(v) == [type |-> "Dash", dir |-> v, tdir |-> "-"]

IntentThrow(t) == [type |-> "Throw", dir |-> VZero, tdir |-> t]

(***************************************************************************)
(* HumanIntent bit flags (agent.rs:118-127): a u8 whose bits are the       *)
(* five flags.                                                             *)
(***************************************************************************)
IDLE == 0

UP == 1

DOWN == 2

LEFT == 4

RIGHT == 8

THROW == 16

AllFlags == 0..(2 * THROW - 1)

FlagBits == {UP, DOWN, LEFT, RIGHT, THROW}

Contains(val, f) == (val \div f) % 2 = 1

BitOr(a, b) ==
    LET W(f) == IF Contains(a, f) \/ Contains(b, f) THEN f ELSE 0
    IN  W(UP) + W(DOWN) + W(LEFT) + W(RIGHT) + W(THROW)

to_index_contains(val) ==
    IF Contains(val, UP) THEN 1
    ELSE IF Contains(val, DOWN) THEN 2
    ELSE IF Contains(val, LEFT) THEN 3
    ELSE IF Contains(val, RIGHT) THEN 4
    ELSE 0

human_intent_to_index(val) ==
    IF val = UP THEN 1
    ELSE IF val = DOWN THEN 2
    ELSE IF val = LEFT THEN 3
    ELSE IF val = RIGHT THEN 4
    ELSE IF val = BitOr(UP, LEFT) THEN 5
    ELSE IF val = BitOr(UP, RIGHT) THEN 6
    ELSE IF val = BitOr(DOWN, LEFT) THEN 7
    ELSE IF val = BitOr(DOWN, RIGHT) THEN 8
    ELSE IF val = BitOr(THROW, UP) THEN 9
    ELSE IF val = BitOr(THROW, DOWN) THEN 10
    ELSE IF val = BitOr(THROW, LEFT) THEN 11
    ELSE IF val = BitOr(THROW, RIGHT) THEN 12
    ELSE IF val = BitOr(BitOr(THROW, UP), LEFT) THEN 13
    ELSE IF val = BitOr(BitOr(THROW, UP), RIGHT) THEN 14
    ELSE IF val = BitOr(BitOr(THROW, DOWN), LEFT) THEN 15
    ELSE IF val = BitOr(BitOr(THROW, DOWN), RIGHT) THEN 16
    ELSE 0

from_index_swapped(idx) ==
    IF idx = 1 THEN UP
    ELSE IF idx = 2 THEN DOWN
    ELSE IF idx = 3 THEN LEFT
    ELSE IF idx = 4 THEN RIGHT
    ELSE IF idx = 5 THEN BitOr(UP, RIGHT)
    ELSE IF idx = 6 THEN BitOr(UP, LEFT)
    ELSE IF idx = 7 THEN BitOr(DOWN, LEFT)
    ELSE IF idx = 8 THEN BitOr(DOWN, RIGHT)
    ELSE IF idx = 9 THEN BitOr(THROW, UP)
    ELSE IF idx = 10 THEN BitOr(THROW, DOWN)
    ELSE IF idx = 11 THEN BitOr(THROW, LEFT)
    ELSE IF idx = 12 THEN BitOr(THROW, RIGHT)
    ELSE IF idx = 13 THEN BitOr(BitOr(THROW, UP), LEFT)
    ELSE IF idx = 14 THEN BitOr(BitOr(THROW, UP), RIGHT)
    ELSE IF idx = 15 THEN BitOr(BitOr(THROW, DOWN), LEFT)
    ELSE IF idx = 16 THEN BitOr(BitOr(THROW, DOWN), RIGHT)
    ELSE IDLE

human_intent_from_index(idx) ==
    IF idx = 1 THEN UP
    ELSE IF idx = 2 THEN DOWN
    ELSE IF idx = 3 THEN LEFT
    ELSE IF idx = 4 THEN RIGHT
    ELSE IF idx = 5 THEN BitOr(UP, LEFT)
    ELSE IF idx = 6 THEN BitOr(UP, RIGHT)
    ELSE IF idx = 7 THEN BitOr(DOWN, LEFT)
    ELSE IF idx = 8 THEN BitOr(DOWN, RIGHT)
    ELSE IF idx = 9 THEN BitOr(THROW, UP)
    ELSE IF idx = 10 THEN BitOr(THROW, DOWN)
    ELSE IF idx = 11 THEN BitOr(THROW, LEFT)
    ELSE IF idx = 12 THEN BitOr(THROW, RIGHT)
    ELSE IF idx = 13 THEN BitOr(BitOr(THROW, UP), LEFT)
    ELSE IF idx = 14 THEN BitOr(BitOr(THROW, UP), RIGHT)
    ELSE IF idx = 15 THEN BitOr(BitOr(THROW, DOWN), LEFT)
    ELSE IF idx = 16 THEN BitOr(BitOr(THROW, DOWN), RIGHT)
    ELSE IDLE

(***************************************************************************)
(* GameEngine (external to agent.rs): the fields agent.rs reads and the    *)
(* operations it calls.  An engine value is a record; engine objects live  *)
(* in `heap`.  held is frisbee.held_by_player, slide[i] is                 *)
(* players.i.slide.is_some().                                              *)
(***************************************************************************)
LiveId == 0

NoId == -1

Engine(st, tm, hd, sc, sl, fp) ==
    [state_of_game |-> st, time |-> tm, held |-> hd,
     pos |-> <<Vec(-1, 0), Vec(1, 0)>>, score |-> sc, slide |-> sl,
     fpos |-> fp, inputs |-> <<IDLE, IDLE>>]

GameEngineNew ==
    Engine(fresh, MaxTime, "None", <<0, 0>>, <<FALSE, FALSE>>, VZero)

LaneY(t) ==
    IF t = "Up" THEN 2 * VUnit
    ELSE IF t = "LightUp" THEN VUnit
    ELSE IF t = "Middle" THEN 0
    ELSE IF t = "LightDown" THEN -VUnit
    ELSE -2 * VUnit

Points(t) == IF t \in {"Up", "Down"} THEN 5 ELSE 3

ThrowFrisbee(e, s, t) ==
    LET i == SideIx(s)
        o == SideIx(Other(s))
    IN  IF e.pos[o][2] = LaneY(t)
        THEN [e EXCEPT !.held = Other(s), !.fpos = e.pos[o]]
        ELSE [e EXCEPT !.held = "None", !.fpos = VZero,
                       !.score[i] = WrapI8(e.score[i] + Points(t))]

ApplyIntent(e, s, it) ==
    LET i == SideIx(s)
    IN  IF e.slide[i] THEN [e EXCEPT !.slide[i] = FALSE]
        ELSE IF it.type = "Move" /\ e.held # s
        THEN [e EXCEPT !.pos[i] = VAdd(e.pos[i], it.dir)]
        ELSE IF it.type = "Dash" /\ e.held # s
        THEN [e EXCEPT !.pos[i] = VAdd(e.pos[i], VAdd(it.dir, it.dir)),
                       !.slide[i] = TRUE]
        ELSE IF it.type = "Throw" /\ e.held = s
        THEN ThrowFrisbee(e, s, it.tdir)
        ELSE e

Catch(e) ==
    IF e.held # "None" THEN e
    ELSE IF e.pos[1] = e.fpos THEN [e EXCEPT !.held = "Left"]
    ELSE IF e.pos[2] = e.fpos THEN [e EXCEPT !.held = "Right"]
    ELSE e

Tick(e) ==
    [e EXCEPT !.time = e.time - 1,
              !.state_of_game = IF e.time <= 1 THEN "End" ELSE "Playing"]

Step(e, intents) ==
    IF e.state_of_game # "Playing" THEN e
    ELSE Tick(Catch(ApplyIntent(ApplyIntent(e, "Left", intents[1]),
                                "Right", intents[2])))

Epoch(e, i1, i2) ==
    Step([e EXCEPT !.inputs = <<i1, i2>>], <<IntentNone, IntentNone>>)

(***************************************************************************)
(* human_intent_to_intent (agent.rs:169-219).                              *)
(***************************************************************************)
has_frisbee_any(e, s) == e.held # "None"

has_frisbee(e, s) == e.held = s

InputDirection(input) ==
    LET y0 == IF Contains(input, UP) THEN VUnit ELSE 0
        y1 == IF Contains(input, DOWN) THEN -VUnit ELSE y0
        x0 == IF Contains(input, LEFT) THEN -VUnit ELSE 0
        x1 == IF Contains(input, RIGHT) THEN VUnit ELSE x0
    IN  Normalized(<<x1, y1>>)

throw_dir_absolute(input, s) ==
    IF Contains(input, UP)
    THEN IF Contains(input, RIGHT) THEN "LightUp" ELSE "Up"
    ELSE IF Contains(input, DOWN)
    THEN IF Contains(input, RIGHT) THEN "LightDown" ELSE "Down"
    ELSE "Middle"

throw_dir(input, s) ==
    IF Contains(input, UP)
    THEN IF (Contains(input, RIGHT) /\ s = "Left")
            \/ (Contains(input, LEFT) /\ s = "Right")
         THEN "LightUp" ELSE "Up"
    ELSE IF Contains(input, DOWN)
    THEN IF (Contains(input, RIGHT) /\ s = "Left")
            \/ (Contains(input, LEFT) /\ s = "Right")
         THEN "LightDown" ELSE "Down"
    ELSE "Middle"

human_intent_to_intent(e, input, s) ==
    LET dir == InputDirection(input)
    IN  IF Contains(input, THROW)
        THEN IF has_frisbee(e, s)
             THEN IntentThrow(throw_dir(input, s))
             ELSE IntentDash(dir)
        ELSE IF dir[1] = 0 /\ dir[2] = 0
             THEN IntentNone
             ELSE IntentMove(dir)

(***************************************************************************)
(* Values of the variables an operation does not use.                      *)
(***************************************************************************)
OutInit == [flags |-> IDLE, index |-> 0, intent |-> IntentNone]

Pending == [type |-> "Pending", dir |-> VZero, tdir |-> "-"]

Panic == [type |-> "Panic", dir |-> VZero, tdir |-> "-"]

PickInit == [i |-> 0, cost |-> 0, intent |-> IntentNone]

CodecIdle == flags_in = IDLE /\ idx_in = 0 /\ out = OutInit

RolloutIdle ==
    sim = 0 /\ frames = 0 /\ rep = 0 /\ prev = <<0, IntentNone>> /\ evals = <<>>

DijIdle == nodes = <<>> /\ stack = <<>> /\ best = <<>> /\ pick = PickInit

QIdle == q_values = <<>> /\ explo_rate = 0

Helds == {"None", "Left", "Right"}

InitLive(e) ==
    /\ heap = [i \in {LiveId} |-> e]
    /\ next_id = LiveId + 1
    /\ live0 = e
    /\ new_engine = NoId
    /\ ci = 0
    /\ stepped = {}
    /\ idle_log = <<>>
    /\ result = Pending

(***************************************************************************)
(* Codec operations: human_intent_from_index, human_intent_to_index and    *)
(* HumanPlayerAgent::act (agent.rs:225-231), each applied to an argument   *)
(* drawn by InitCodec.                                                     *)
(***************************************************************************)
InitCodec ==
    /\ fresh = "Start"
    /\ RolloutIdle /\ DijIdle /\ QIdle
    /\ \/ /\ pc = "codec_index"
          /\ idx_in \in 0..U8Max
          /\ flags_in = IDLE
          /\ side = "Left"
          /\ InitLive(Engine("Playing", MaxTime, "None", <<0, 0>>,
                             <<FALSE, FALSE>>, VZero))
       \/ /\ pc = "codec_flags"
          /\ idx_in = 0
          /\ flags_in \in AllFlags
          /\ side \in Sides
          /\ \E hd \in Helds :
                InitLive([Engine("Playing", MaxTime, hd, <<0, 0>>,
                                 <<FALSE, FALSE>>, VZero)
                          EXCEPT !.inputs[SideIx(side)] = flags_in])
    /\ out = OutInit

CodecVarsUnchanged ==
    UNCHANGED <<side, heap, next_id, fresh, live0, flags_in, idx_in, sim,
                frames, rep, ci, prev, evals, new_engine, nodes, stack, best,
                pick, q_values, explo_rate, stepped,
                idle_log, result>>

CodecFromIndex ==
    /\ pc = "codec_index"
    /\ out' = [out EXCEPT !.flags = human_intent_from_index(idx_in)]
    /\ pc' = "decoded"
    /\ CodecVarsUnchanged

CodecRoundTrip ==
    /\ pc = "decoded"
    /\ out' = [out EXCEPT !.index = human_intent_to_index(out.flags)]
    /\ pc' = "reencoded"
    /\ CodecVarsUnchanged

CodecToIndex ==
    /\ pc = "codec_flags"
    /\ out' = [out EXCEPT !.index = human_intent_to_index(flags_in)]
    /\ pc' = "encoded"
    /\ CodecVarsUnchanged

HumanAct ==
    /\ pc = "encoded"
    /\ LET input == heap[LiveId].inputs[SideIx(side)]
       IN  out' = [out EXCEPT
                     !.intent = human_intent_to_intent(heap[LiveId], input, side)]
    /\ pc' = "resolved"
    /\ CodecVarsUnchanged

NextCodec == CodecFromIndex \/ CodecRoundTrip \/ CodecToIndex \/ HumanAct

SpecCodec == InitCodec /\ [][NextCodec]_vars

(***************************************************************************)
(* Operations on engine objects.  A machine m is the heap together with    *)
(* the allocator, the log of stepped objects and the log of the epochs of  *)
(* the last simulation call.                                               *)
(***************************************************************************)
Machine ==
    [heap |-> heap, next_id |-> next_id, stepped |-> stepped,
     idle_log |-> idle_log]

SetMachine(m) ==
    /\ heap' = m.heap
    /\ next_id' = m.next_id
    /\ stepped' = m.stepped
    /\ idle_log' = m.idle_log

\* GameEngine::new(): the new object has id m.next_id
new_object(m) ==
    [m EXCEPT !.heap = [i \in DOMAIN m.heap \cup {m.next_id} |->
                           IF i = m.next_id THEN GameEngineNew ELSE m.heap[i]],
              !.next_id = m.next_id + 1]

\* the end of the scope of a local engine
drop_object(m, id) ==
    [m EXCEPT !.heap = [i \in DOMAIN m.heap \ {id} |-> m.heap[i]]]

\* src.copy_in(&mut dst)
copy_in(m, src, dst) == [m EXCEPT !.heap[dst] = m.heap[src]]

step_engine(m, id, intents) ==
    [m EXCEPT !.heap[id] = Step(m.heap[id], intents),
              !.stepped = m.stepped \cup {id}]

epoch_engine(m, id) ==
    [m EXCEPT !.heap[id] = Epoch(m.heap[id], IDLE, IDLE),
              !.stepped = m.stepped \cup {id},
              !.idle_log = Append(m.idle_log, m.heap[id].state_of_game)]

SideIntents(s, intent) ==
    IF s = "Left" THEN <<intent, IntentNone>> ELSE <<IntentNone, intent>>

PlayerScore(e, s) == e.score[SideIx(s)]

Sliding(e, s) == e.slide[SideIx(s)]

(***************************************************************************)
(* simulation (agent.rs:27-48).                                            *)
(***************************************************************************)
RECURSIVE simulation_loop(_, _, _, _)
simulation_loop(m, id, i, nb_frames) ==
    IF i >= nb_frames THEN m
    ELSE LET m1 == epoch_engine(m, id)
         IN  IF m1.heap[id].state_of_game # "Playing" THEN m1
             ELSE simulation_loop(m1, id, i + 1, nb_frames)

\* the machine after simulation(engine, side, intent, nb_frames)
simulation(m, id, s, intent, nb_frames) ==
    simulation_loop(step_engine([m EXCEPT !.idle_log = <<>>], id,
                                SideIntents(s, intent)),
                    id, 0, nb_frames)

(***************************************************************************)
(* Candidate intents of the lookahead agents (agent.rs:262-291, 446-474,   *)
(* 381-409), in the order of the calls.                                    *)
(***************************************************************************)
ThrowCandidates ==
    [k \in 1..Len(ThrowDirections) |-> IntentThrow(ThrowDirections[k])]

Directions ==
    <<Vec(0, 1), Vec(0, -1), Vec(-1, 0), Vec(1, 0),
      Normalized(Vec(-1, -1)), Normalized(Vec(-1, 1)),
      Normalized(Vec(1, -1)), Normalized(Vec(1, 1))>>

MoveDashCandidates ==
    [k \in 1..(2 * Len(Directions)) |->
        IF k <= Len(Directions) THEN IntentMove(Directions[k])
        ELSE IntentDash(Directions[k - Len(Directions)])]

Candidates(e, s) ==
    IF e.held = s THEN ThrowCandidates
    ELSE IF ~Sliding(e, s) THEN MoveDashCandidates
    ELSE <<>>

(***************************************************************************)
(* RandomRolloutAgent::act (agent.rs:240-298).                             *)
(***************************************************************************)
LookVarsUnchanged ==
    UNCHANGED <<side, fresh, live0, flags_in, idx_in, out, sim, frames,
                q_values, explo_rate>>

DijVarsUnchanged == UNCHANGED <<nodes, stack, best, pick>>

\* lines 241-246
RolloutBegin ==
    /\ pc = "rollout"
    /\ prev' = <<0, IntentNone>>
    /\ new_engine' = next_id
    /\ SetMachine(new_object(Machine))
    /\ rep' = 0
    /\ ci' = 1
    /\ pc' = "rollout_loop"
    /\ UNCHANGED <<evals, result>>
    /\ LookVarsUnchanged /\ DijVarsUnchanged

run_simulation_on_live(m, eng, new, s, intent, fr) ==
    simulation(m, eng, s, intent, fr)

\* run_simulation (lines 248-250): the machine after the copy and the rollout
run_simulation(m, eng, new, s, intent, fr) ==
    simulation(copy_in(m, eng, new), new, s, intent, fr)

\* run_simulation (lines 251-254)
keep_best(p, test) == IF p[1] < test[1] THEN test ELSE p

RolloutRun ==
    /\ pc = "rollout_loop"
    /\ rep < sim
    /\ ci <= Len(Candidates(heap[LiveId], side))
    /\ LET intent == Candidates(heap[LiveId], side)[ci]
           m == run_simulation(Machine, LiveId, new_engine, side, intent, frames)
           test == <<PlayerScore(m.heap[new_engine], side), intent>>
       IN  /\ SetMachine(m)
           /\ prev' = keep_best(prev, test)
           /\ evals' = Append(evals, test)
    /\ ci' = ci + 1
    /\ UNCHANGED <<pc, rep, new_engine, result>>
    /\ LookVarsUnchanged /\ DijVarsUnchanged

RolloutNextRep ==
    /\ pc = "rollout_loop"
    /\ rep < sim
    /\ ci > Len(Candidates(heap[LiveId], side))
    /\ rep' = rep + 1
    /\ ci' = 1
    /\ UNCHANGED <<pc, heap, next_id, stepped, idle_log,
                 prev, evals, new_engine, result>>
    /\ LookVarsUnchanged /\ DijVarsUnchanged

\* line 297
RolloutReturn ==
    /\ pc = "rollout_loop"
    /\ rep >= sim
    /\ result' = prev[2]
    /\ pc' = "rollout_done"
    /\ SetMachine(drop_object(Machine, new_engine))
    /\ UNCHANGED <<rep, ci, prev, evals, new_engine>>
    /\ LookVarsUnchanged /\ DijVarsUnchanged

(***************************************************************************)
(* Node and get_best (agent.rs:303-330).  A node owns an engine object;    *)
(* get_best gives each node it returns a new engine object holding a copy. *)
(***************************************************************************)
Node(e, fi, c, sc) == [engine |-> e, first_intent |-> fi, cost |-> c, score |-> sc]

RECURSIVE max_score_from(_, _, _)
max_score_from(ns, k, m) ==
    IF k > Len(ns) THEN m
    ELSE max_score_from(ns, k + 1, IF ns[k].score > m THEN ns[k].score ELSE m)

max_score(ns) == max_score_from(ns, 1, 0)

RECURSIVE max_nodes_from(_, _, _, _)
max_nodes_from(ns, k, m, acc) ==
    IF k > Len(ns) THEN acc
    ELSE max_nodes_from(ns, k + 1, m,
            IF ns[k].score = m THEN Append(acc, k) ELSE acc)

\* indices, in order, of the nodes get_best copies
best_indices(ns) ==
    IF ns = <<>> THEN <<>> ELSE max_nodes_from(ns, 1, max_score(ns), <<>>)

get_best(ns, base) ==
    LET ix == best_indices(ns)
    IN  [k \in 1..Len(ix) |->
            Node(base + k - 1, ns[ix[k]].first_intent, ns[ix[k]].cost,
                 ns[ix[k]].score)]

\* the heap after get_best: the k-th returned node's engine is a copy of
\* its source node's engine (GameEngine::new, then copy_in)
get_best_heap(h, ns, base) ==
    LET ix == best_indices(ns)
        new == base..(base + Len(ix) - 1)
    IN  [i \in DOMAIN h \cup new |->
            IF i \in new THEN h[ns[ix[i - base + 1]].engine] ELSE h[i]]

(***************************************************************************)
(* Selection of DijkstraAgent::act (agent.rs:479-496).                     *)
(***************************************************************************)
CoinRange == 1..99

pick_step_greater(p, n, r) ==
    LET c1 == IF n.cost > p.cost THEN n.cost ELSE p.cost
        i1 == IF n.cost > p.cost THEN n.first_intent ELSE p.intent
    IN  [i |-> p.i + 1, cost |-> c1,
         intent |-> IF n.cost = c1 /\ r > 50 THEN n.first_intent ELSE i1]

\* one iteration of `for i in best.iter()`, r the value of gen_range(1, 100)
pick_step(p, n, r) ==
    LET c1 == IF n.cost < p.cost THEN n.cost ELSE p.cost
        i1 == IF n.cost < p.cost THEN n.first_intent ELSE p.intent
    IN  [i |-> p.i + 1, cost |-> c1,
         intent |-> IF n.cost = c1 /\ r > 50 THEN n.first_intent ELSE i1]

SelVarsUnchanged ==
    UNCHANGED <<side, fresh, live0, flags_in, idx_in, out, sim, frames, rep,
                ci, prev, evals, new_engine, nodes, stack, q_values,
                explo_rate, stepped,
                idle_log>>

DijGetBest ==
    /\ pc = "select"
    /\ best' = get_best(nodes, next_id)
    /\ heap' = get_best_heap(heap, nodes, next_id)
    /\ next_id' = next_id + Len(best')
    /\ IF best' = <<>>
       THEN /\ result' = Panic
            /\ pc' = "done"
            /\ pick' = pick
       ELSE /\ result' = result
            /\ pc' = "pick"
            /\ pick' = [i |-> 1, cost |-> best'[1].cost,
                        intent |-> best'[1].first_intent]
    /\ SelVarsUnchanged

DijPick ==
    /\ pc = "pick"
    /\ pick.i <= Len(best)
    /\ \E r \in CoinRange : pick' = pick_step(pick, best[pick.i], r)
    /\ UNCHANGED <<pc, heap, next_id, best, result>>
    /\ SelVarsUnchanged

DijReturn ==
    /\ pc = "pick"
    /\ pick.i > Len(best)
    /\ result' = pick.intent
    /\ pc' = "done"
    /\ UNCHANGED <<heap, next_id, best, pick>>
    /\ SelVarsUnchanged

(***************************************************************************)
(* get_best and the selection applied to node lists drawn from bounded     *)
(* sets: at most MaxNodes nodes, scores and costs from small signed sets,  *)
(* the k-th node carrying the k-th intent of SelIntents.                   *)
(***************************************************************************)
SelScores == {-1, 0, 2}

SelCosts == {-1, 0, 4}

SelIntents ==
    <<IntentNone, IntentMove(Vec(0, 1)), IntentDash(Vec(0, 1)),
      IntentThrow("Up"), IntentThrow("Middle")>>

SelEngine == Engine("Playing", MaxTime, "None", <<0, 0>>, <<FALSE, FALSE>>, VZero)

InitSel ==
    /\ pc = "select"
    /\ side = "Left"
    /\ fresh = "Start"
    /\ CodecIdle /\ RolloutIdle /\ QIdle
    /\ \E n \in 1..MaxNodes :
          /\ \E sc \in [1..n -> SelScores], co \in [1..n -> SelCosts] :
                nodes = [k \in 1..n |-> Node(k, SelIntents[k], co[k], sc[k])]
          /\ heap = [i \in 0..n |-> SelEngine]
          /\ next_id = n + 1
    /\ live0 = SelEngine
    /\ new_engine = NoId
    /\ ci = 0
    /\ stack = <<>>
    /\ best = <<>>
    /\ pick = PickInit
    /\ stepped = {}
    /\ idle_log = <<>>
    /\ result = Pending

NextSel == DijGetBest \/ DijPick \/ DijReturn

SpecSel == InitSel /\ [][NextSel]_vars

(***************************************************************************)
(* simulation_dij (agent.rs:332-413).  Each call is a frame of `stack`:    *)
(* engine is the id behind the `engine` argument, local the id of the      *)
(* call's own `new_engine`, add its add_score, k the position in the body  *)
(* (0 before the guard of line 335, then the index of the next child call).*)
(* MaxCost stands for the cost bound 1000000000000 of line 335.            *)
(***************************************************************************)
Frame(e, intent, sc, c) ==
    [engine |-> e, intent |-> intent, score |-> sc, cost |-> c, k |-> 0,
     local |-> NoId, add |-> 0]

Top == stack[Len(stack)]

Pop == SubSeq(stack, 1, Len(stack) - 1)

SetTop(f) == [stack EXCEPT ![Len(stack)] = f]

\* lines 341-349: the lengths are compared, so their squares are
Distance(e, s) == LengthSq(VSub(e.fpos, e.pos[SideIx(s)]))

\* lines 340, 351-369
add_score(before, after, e, s) ==
    IF e.held = s THEN 100000
    ELSE (IF after < before THEN 1000 ELSE 0)
         + (IF after > before THEN -100 ELSE 0)
         + (IF after = before THEN -50 ELSE 0)

\* line 335
dij_guard(f) == f.cost >= MaxCost \/ heap[f.engine].state_of_game # "Playing"

\* line 374: the first_intent of the node a call records
node_first_intent(f) == f.intent

\* lines 381-385, 393-409: the score argument of a child call
child_score(f, pscore, intent) ==
    IF intent.type = "Throw"
    THEN f.add + f.score
         + (IF intent.tdir \in {"LightUp", "LightDown"} THEN 4000
            ELSE IF intent.tdir = "Middle" THEN 2000 ELSE 3000)
         + pscore
    ELSE f.add + f.score + WrapI8(pscore + 1)

child_cost_free(f, intent) == f.cost + (IF intent.type = "Dash" THEN 4 ELSE 0)

child_cost(f, intent) == f.cost + (IF intent.type = "Dash" THEN 4 ELSE 1)

\* lines 446-474: the score argument of run_simulation
root_score(pscore, intent) ==
    IF intent.type = "Throw"
    THEN WrapI8(pscore + (IF intent.tdir \in {"LightUp", "LightDown"} THEN 40
                          ELSE IF intent.tdir = "Middle" THEN 20 ELSE 30))
    ELSE WrapI8(pscore + 1)

DijOtherUnchanged == UNCHANGED <<rep, prev, evals, best, pick, result>>

\* lines 420-431
DijBegin ==
    /\ pc = "dijkstra"
    /\ LET m1 == new_object(Machine)
           m2 == copy_in(new_object(m1), LiveId, m1.next_id)
       IN  /\ new_engine' = next_id
           /\ SetMachine(m2)
           /\ nodes' = <<Node(m1.next_id, IntentNone, -1,
                              PlayerScore(heap[LiveId], side))>>
    /\ ci' = 1
    /\ pc' = "dij_loop"
    /\ UNCHANGED stack
    /\ DijOtherUnchanged /\ LookVarsUnchanged

\* run_simulation (lines 433-440) up to the call of simulation_dij
DijRun ==
    /\ pc = "dij_loop"
    /\ stack = <<>>
    /\ ci <= Len(Candidates(heap[LiveId], side))
    /\ LET intent == Candidates(heap[LiveId], side)[ci]
           sc == root_score(PlayerScore(heap[LiveId], side), intent)
           m1 == copy_in(Machine, LiveId, new_engine)
           m2 == copy_in(new_object(m1), LiveId, m1.next_id)
       IN  /\ SetMachine(m2)
           /\ nodes' = Append(nodes, Node(m1.next_id, intent, -1, sc))
           /\ stack' = <<Frame(new_engine, intent, sc, 0)>>
    /\ ci' = ci + 1
    /\ UNCHANGED <<pc, new_engine>>
    /\ DijOtherUnchanged /\ LookVarsUnchanged

\* line 335: the call returns at once
DijPrune ==
    /\ pc = "dij_loop"
    /\ stack # <<>>
    /\ Top.k = 0
    /\ dij_guard(Top)
    /\ stack' = Pop
    /\ UNCHANGED <<pc, heap, next_id, stepped, idle_log,
                 ci, new_engine, nodes>>
    /\ DijOtherUnchanged /\ LookVarsUnchanged

\* lines 336-375: the step, the heuristic and the node
DijExpand ==
    /\ pc = "dij_loop"
    /\ stack # <<>>
    /\ Top.k = 0
    /\ ~dij_guard(Top)
    /\ LET f == Top
           before == Distance(heap[f.engine], side)
           m1 == step_engine(Machine, f.engine, SideIntents(side, f.intent))
           e1 == m1.heap[f.engine]
           add == add_score(before, Distance(e1, side), e1, side)
           m2 == new_object(m1)
           m3 == copy_in(new_object(m2), f.engine, m2.next_id)
       IN  /\ SetMachine(m3)
           /\ nodes' = Append(nodes, Node(m2.next_id, node_first_intent(f),
                                          f.cost, add + f.score))
           /\ stack' = SetTop([f EXCEPT !.k = 1, !.local = m1.next_id,
                                        !.add = add])
    /\ UNCHANGED <<pc, ci, new_engine>>
    /\ DijOtherUnchanged /\ LookVarsUnchanged

\* lines 378-412: the next recursive call
DijCall ==
    /\ pc = "dij_loop"
    /\ stack # <<>>
    /\ Top.k >= 1
    /\ Top.k <= Len(Candidates(heap[Top.engine], side))
    /\ LET f == Top
           intent == Candidates(heap[f.engine], side)[f.k]
           pscore == PlayerScore(heap[f.engine], side)
       IN  stack' = Append(SetTop([f EXCEPT !.k = f.k + 1]),
                           Frame(f.local, intent, child_score(f, pscore, intent),
                                 child_cost(f, intent)))
    /\ UNCHANGED <<pc, heap, next_id, stepped, idle_log,
                 ci, new_engine, nodes>>
    /\ DijOtherUnchanged /\ LookVarsUnchanged

\* line 413: the call returns and its new_engine goes out of scope
DijUnwind ==
    /\ pc = "dij_loop"
    /\ stack # <<>>
    /\ Top.k > Len(Candidates(heap[Top.engine], side))
    /\ SetMachine(drop_object(Machine, Top.local))
    /\ stack' = Pop
    /\ UNCHANGED <<pc, ci, new_engine, nodes>>
    /\ DijOtherUnchanged /\ LookVarsUnchanged

\* line 477: every candidate has been expanded
DijLoopEnd ==
    /\ pc = "dij_loop"
    /\ stack = <<>>
    /\ ci > Len(Candidates(heap[LiveId], side))
    /\ pc' = "select"
    /\ UNCHANGED <<heap, next_id, stepped, idle_log, ci, new_engine, nodes, stack>>
    /\ DijOtherUnchanged /\ LookVarsUnchanged

(***************************************************************************)
(* The lookahead agents called on a live engine drawn from LookLive.       *)
(***************************************************************************)
ScoreVals == {-2, 0, 1}

Clocks == {<<"End", 0>>, <<"Playing", 1>>, <<"Playing", MaxTime>>}

PairFor(s, mine, other) == IF s = "Left" THEN <<mine, other>> ELSE <<other, mine>>

HeldAt(e) ==
    [e EXCEPT !.fpos = IF e.held = "None" THEN VZero ELSE e.pos[SideIx(e.held)]]

LookLive(s) ==
    {HeldAt(Engine(cl[1], cl[2], hd, PairFor(s, sc, 0), PairFor(s, sl, FALSE),
                   VZero)) :
        cl \in Clocks, hd \in Helds, sc \in ScoreVals, sl \in BOOLEAN}

InitLook ==
    /\ side \in Sides
    /\ fresh \in {"Start", "Playing"}
    /\ \E e \in LookLive(side) : InitLive(e)
    /\ CodecIdle /\ DijIdle /\ QIdle
    /\ rep = 0 /\ prev = <<0, IntentNone>> /\ evals = <<>>
    /\ \/ pc = "rollout" /\ sim \in 0..MaxSim /\ frames \in 0..MaxFrames
       \/ pc = "dijkstra" /\ sim = 0 /\ frames = 0

NextLook ==
    \/ RolloutBegin \/ RolloutRun \/ RolloutNextRep \/ RolloutReturn
    \/ DijBegin \/ DijRun \/ DijPrune \/ DijExpand \/ DijCall \/ DijUnwind
    \/ DijLoopEnd \/ DijGetBest \/ DijPick \/ DijReturn

SpecLook == InitLook /\ [][NextLook]_vars

(***************************************************************************)
(* TabularQLearningAgent::act (agent.rs:516-568).  Action values are       *)
(* integers; explo_rate and the draw of gen_range(0.0, 1.0) are in         *)
(* percent.                                                                *)
(***************************************************************************)
QVALUES_ACTIONS == 17

ActionIndices == 0..(QVALUES_ACTIONS - 1)

RECURSIVE max_index_from(_, _, _)
max_index_from(array, key, idx) ==
    IF key >= QVALUES_ACTIONS THEN idx
    ELSE max_index_from(array, key + 1,
                        IF array[key] > array[idx] THEN key ELSE idx)

RECURSIVE max_index_last_from(_, _, _)
max_index_last_from(array, key, idx) ==
    IF key >= QVALUES_ACTIONS THEN idx
    ELSE max_index_last_from(array, key + 1,
                             IF array[key] >= array[idx] THEN key ELSE idx)

max_index_last(array) == max_index_last_from(array, 0, 0)

\* lines 520-530
max_index(array) == max_index_from(array, 0, 0)

\* GameEngine::hash
Hash(e) == IF e.held = "None" THEN 0 ELSE SideIx(e.held)

OtherHash(e) == (Hash(e) + 1) % 3

\* lines 538-554
exploit_index(e, qv, s) ==
    IF Hash(e) \in DOMAIN qv THEN max_index(qv[Hash(e)][SideIx(s)]) ELSE 0

QVals == {-1, 1, 2}

QArray(i, a, j, b) ==
    [k \in ActionIndices |-> IF k = i THEN a ELSE IF k = j THEN b ELSE 0]

QArrays ==
    {QArray(ij[1], a, ij[2], b) :
        ij \in {x \in ActionIndices \X ActionIndices : x[1] <= x[2]},
        a \in QVals, b \in QVals}

QDecoys == {QArray(1, 1, 1, 1), QArray(QVALUES_ACTIONS - 1, 2, 0, 1)}

ExploRates == {0, 100}

Draws == {0, 99}

InitQ ==
    /\ pc = "qlearning"
    /\ side \in Sides
    /\ fresh = "Start"
    /\ \E hd \in {"None", side} :
          InitLive(HeldAt(Engine("Playing", MaxTime, hd, <<0, 0>>,
                                 <<FALSE, FALSE>>, VZero)))
    /\ CodecIdle /\ RolloutIdle /\ DijIdle
    /\ explo_rate \in ExploRates
    /\ \E mine \in QArrays, other \in QDecoys, present \in BOOLEAN :
          q_values = [h \in {IF present THEN Hash(live0) ELSE OtherHash(live0)}
                        |-> PairFor(side, mine, other)]

QAct ==
    /\ pc = "qlearning"
    /\ \E r \in Draws, explore \in ActionIndices :
          LET intent_index == IF r < explo_rate THEN explore
                              ELSE exploit_index(heap[LiveId], q_values, side)
              intent == human_intent_from_index(intent_index)
              e == [heap[LiveId] EXCEPT !.inputs[SideIx(side)] = intent]
          IN  /\ heap' = [heap EXCEPT ![LiveId] = e]
              /\ out' = [out EXCEPT !.index = intent_index, !.flags = intent]
              /\ result' = human_intent_to_intent(e, intent, side)
    /\ pc' = "q_done"
    /\ UNCHANGED <<side, next_id, fresh, live0, flags_in, idx_in, sim, frames,
                   rep, ci, prev, evals, new_engine, nodes, stack, best, pick,
                   q_values, explo_rate, stepped,
                   idle_log>>

NextQ == QAct

SpecQ == InitQ /\ [][NextQ]_vars

(***************************************************************************)
(* Claims about the codec, checked under SpecCodec.                        *)
(***************************************************************************)
CanonicalIndices == 0..(QVALUES_ACTIONS - 1)

CountSet(input, F) == Cardinality({f \in F : Contains(input, f)})

CanonicalNonIdle(input) ==
    /\ CountSet(input, {UP, DOWN}) <= 1
    /\ CountSet(input, {LEFT, RIGHT}) <= 1
    /\ CountSet(input, {UP, DOWN, LEFT, RIGHT}) >= 1

FacesOpponent(input, s) ==
    \/ Contains(input, RIGHT) /\ s = "Left"
    \/ Contains(input, LEFT) /\ s = "Right"

\* C1: decoding any of the 17 canonical indices and encoding the flags
\* again gives the index back.
C1_RoundTrip ==
    (pc = "reencoded" /\ idx_in \in CanonicalIndices) => out.index = idx_in

C1_Witness == pc = "reencoded" /\ idx_in = QVALUES_ACTIONS - 1 /\ out.index = idx_in

\* C2: human_intent_to_index is non-zero exactly on the 16 canonical
\* non-idle flag combinations (every other combination gives 0), and
\* human_intent_from_index gives IDLE for every index outside 1..16.
C2_Closure ==
    /\ pc \in {"encoded", "resolved"} =>
          /\ out.index \in CanonicalIndices
          /\ (out.index # 0) <=> CanonicalNonIdle(flags_in)
    /\ (pc \in {"decoded", "reencoded"} /\ idx_in \notin 1..(QVALUES_ACTIONS - 1)) =>
          out.flags = IDLE

C2_Witness ==
    /\ pc = "encoded"
    /\ flags_in = BitOr(UP, DOWN)
    /\ out.index = 0

\* C3: with THROW set, the intent is a Throw exactly when the side holds
\* the frisbee, and otherwise it is Dash(direction).
C3_ThrowDegradesToDash ==
    (pc = "resolved" /\ Contains(flags_in, THROW)) =>
        /\ (out.intent.type = "Throw") <=> (heap[LiveId].held = side)
        /\ heap[LiveId].held # side =>
              out.intent = IntentDash(InputDirection(flags_in))

C3_Witness ==
    /\ pc = "resolved"
    /\ Contains(flags_in, THROW)
    /\ heap[LiveId].held = Other(side)
    /\ out.intent.type = "Dash"

ThrowResolved ==
    pc = "resolved" /\ Contains(flags_in, THROW) /\ heap[LiveId].held = side

\* C4 as stated: a throw is LightUp (LightDown) exactly when UP (DOWN) is
\* set together with the flag facing the opponent, Up (Down) when the
\* vertical flag is set without it, and Middle with no vertical flag.
C4_AsStated ==
    ThrowResolved =>
        /\ (out.intent.tdir = "LightUp") <=>
              (Contains(flags_in, UP) /\ FacesOpponent(flags_in, side))
        /\ (out.intent.tdir = "LightDown") <=>
              (Contains(flags_in, DOWN) /\ FacesOpponent(flags_in, side))
        /\ (Contains(flags_in, UP) /\ ~FacesOpponent(flags_in, side)) =>
              out.intent.tdir = "Up"
        /\ (Contains(flags_in, DOWN) /\ ~FacesOpponent(flags_in, side)) =>
              out.intent.tdir = "Down"
        /\ (~Contains(flags_in, UP) /\ ~Contains(flags_in, DOWN)) =>
              out.intent.tdir = "Middle"

\* C4 (amended): UP takes precedence over DOWN.  A throw is LightUp exactly
\* when UP is set with the flag facing the opponent and Up when UP is set
\* without it; when UP is not set it is LightDown exactly when DOWN is set
\* with the flag facing the opponent and Down when DOWN is set without it;
\* it is Middle when no vertical flag is set.
C4_SideRelativeLightThrow ==
    ThrowResolved =>
        LET up == Contains(flags_in, UP)
            down == Contains(flags_in, DOWN) /\ ~up
            opp == FacesOpponent(flags_in, side)
        IN  /\ (out.intent.tdir = "LightUp") <=> (up /\ opp)
            /\ (out.intent.tdir = "LightDown") <=> (down /\ opp)
            /\ (up /\ ~opp) => out.intent.tdir = "Up"
            /\ (down /\ ~opp) => out.intent.tdir = "Down"
            /\ (~up /\ ~down) => out.intent.tdir = "Middle"

C4_Witness ==
    /\ ThrowResolved
    /\ side = "Right"
    /\ flags_in = BitOr(BitOr(THROW, UP), LEFT)
    /\ out.intent = IntentThrow("LightUp")

(***************************************************************************)
(* Claims about get_best and the selection, checked under SpecSel.         *)
(***************************************************************************)
Scores(ns) == {ns[k].score : k \in 1..Len(ns)}

TrueMax(ns) == CHOOSE m \in Scores(ns) : \A x \in Scores(ns) : x <= m

Payload(n) == [first_intent |-> n.first_intent, cost |-> n.cost, score |-> n.score]

PayloadSeq(ns) == [k \in 1..Len(ns) |-> Payload(ns[k])]

IsMaxScore(n) == n.score = TrueMax(nodes)

\* C6: for a non-empty list, get_best returns exactly the nodes whose score
\* is the maximum of the list, in order and with first_intent, cost and
\* score unchanged; the result is never empty.
C6_GetBestReturnsMaxNodes ==
    (pc \in {"pick", "done"} /\ nodes # <<>>) =>
        /\ best # <<>>
        /\ PayloadSeq(best) = PayloadSeq(SelectSeq(nodes, IsMaxScore))

\* C8: whatever the coin flips, the intent returned is the first_intent of
\* a node of maximum score that has minimum cost among the nodes of
\* maximum score.
C8_SelectionMaxScoreMinCost ==
    (pc = "done" /\ result # Panic) =>
        \E k \in 1..Len(nodes) :
            /\ nodes[k].first_intent = result
            /\ IsMaxScore(nodes[k])
            /\ \A j \in 1..Len(nodes) :
                  IsMaxScore(nodes[j]) => nodes[k].cost <= nodes[j].cost

C8_Witness ==
    /\ pc = "done"
    /\ result # Panic
    /\ \E j, k \in 1..Len(nodes) :
          /\ j < k
          /\ IsMaxScore(nodes[j]) /\ IsMaxScore(nodes[k])
          /\ nodes[k].cost < nodes[j].cost
          /\ result = nodes[k].first_intent

(***************************************************************************)
(* Claims about the lookahead agents, checked under SpecLook.              *)
(***************************************************************************)
EvalScores == {evals[k][1] : k \in 1..Len(evals)}

EvalMax == CHOOSE m \in EvalScores : \A x \in EvalScores : x <= m

EarliestBest == evals[CHOOSE k \in 1..Len(evals) :
                        /\ evals[k][1] = EvalMax
                        /\ \A j \in 1..(k - 1) : evals[j][1] # EvalMax]

\* C5: when at least one candidate was evaluated, RandomRolloutAgent.act
\* returns the earliest-evaluated candidate of greatest simulated score
\* (whose score is then at least that of the first candidate evaluated);
\* Intent::None is returned only if no candidate was evaluated.
\* It is stated for the calls made while the game is Playing and the side's
\* score is not negative.
C5_AsStated ==
    (/\ pc = "rollout_done"
     /\ live0.state_of_game = "Playing"
     /\ PlayerScore(live0, side) >= 0) =>
        /\ evals # <<>> =>
              /\ result = EarliestBest[2]
              /\ EarliestBest[1] >= evals[1][1]
        /\ result = IntentNone => evals = <<>>

\* the root-level candidate from which the k-th node descends: the
\* first_intent of the last node pushed by act or run_simulation (cost -1)
\* at or before k
RootOf(k) ==
    nodes[CHOOSE j \in 1..k :
            /\ nodes[j].cost = -1
            /\ \A i \in (j + 1)..k : nodes[i].cost # -1].first_intent

\* C7: every node recorded by simulation_dij, at any depth, carries as
\* first_intent the root-level candidate intent its path descends from.
\* It is stated for the calls made while the side's score is not negative.
C7_AsStated ==
    (/\ pc \in {"dij_loop", "select", "pick", "done"}
     /\ PlayerScore(live0, side) >= 0) =>
        \A k \in 1..Len(nodes) :
            nodes[k].cost >= 0 => nodes[k].first_intent = RootOf(k)

NodeEngines(ns) == {ns[k].engine : k \in 1..Len(ns)}

FrameEngines ==
    {stack[k].engine : k \in 1..Len(stack)}
        \cup {stack[k].local : k \in 1..Len(stack)}

\* C10: during and after RandomRolloutAgent.act and DijkstraAgent.act the
\* live engine has the value it had at the call, no step or epoch is
\* applied to it, and neither a lookahead engine nor a node's snapshot is
\* the live engine object.
C10_LiveStateUnchanged ==
    /\ heap[LiveId] = live0
    /\ LiveId \notin stepped
    /\ new_engine # LiveId
    /\ LiveId \notin NodeEngines(nodes) \cup NodeEngines(best) \cup FrameEngines

C10_Witness ==
    /\ pc = "done"
    /\ stepped # {}
    /\ \E k \in 1..Len(nodes) : heap[nodes[k].engine] # heap[LiveId]

(***************************************************************************)
(* Claims about the TabularQLearning agent, checked under SpecQ.           *)
(***************************************************************************)
OwnArray == q_values[Hash(live0)][SideIx(side)]

IsFirstMax(array, i) ==
    /\ \A k \in ActionIndices : array[k] <= array[i]
    /\ \A k \in ActionIndices : k < i => array[k] < array[i]

\* C9: with explo_rate = 0.0, if the state hash is in the table the chosen
\* index is the smallest index holding the maximum of the acting side's
\* array; if it is absent the index is 0, which decodes to IDLE and
\* resolves to Intent::None.
C9_ExploitArgmax ==
    (pc = "q_done" /\ explo_rate = 0) =>
        IF Hash(live0) \in DOMAIN q_values
        THEN IsFirstMax(OwnArray, out.index)
        ELSE out.index = 0 /\ out.flags = IDLE /\ result = IntentNone

C9_Witness ==
    /\ pc = "q_done"
    /\ explo_rate = 0
    /\ Hash(live0) \in DOMAIN q_values
    /\ out.index > 0
    /\ \E k \in ActionIndices : k > out.index /\ OwnArray[k] = OwnArray[out.index]


(***************************************************************************)
(* C11: DijkstraAgent::act never fails: for every state and side, whatever *)
(* the sign of the scores, it returns exactly one Intent without           *)
(* panicking (the vector `best` it indexes at lines 480-481 is never       *)
(* empty), and it returns Intent::None when the side is mid-dash and does  *)
(* not hold the frisbee.  get_best starts its maximum at 0 (line 312), so  *)
(* it returns no node when every score is negative.  The act is called on  *)
(* a game that is Playing.                                                 *)
(***************************************************************************)
IntentTypes == {"None", "Move", "Dash", "Throw"}

C11_AsStated ==
    pc = "done" /\ live0.state_of_game = "Playing" =>
        /\ result.type \in IntentTypes
        /\ best # <<>>
        /\ (Sliding(live0, side) /\ ~has_frisbee(live0, side)
                => result = IntentNone)

(***************************************************************************)
(* C12: after the step that applies the candidate intent, simulation       *)
(* performs at most frame_budget idle advances, and performs none while    *)
(* the game is not Playing, the case where that first step ended the game  *)
(* included.  The loop of lines 39-44 calls epoch before it looks at       *)
(* state_of_game.  The act is called on a game that is Playing, with a     *)
(* score that is not negative.                                             *)
(***************************************************************************)
C12_AsStated ==
    /\ live0.state_of_game = "Playing"
    /\ PlayerScore(live0, side) >= 0
    => /\ Len(idle_log) <= frames
       /\ \A k \in 1..Len(idle_log) : idle_log[k] = "Playing"

(***************************************************************************)
(* C13: each recursive call of simulation_dij applies its intent to a copy *)
(* of the state reached by its caller's step.  Stated at the entry of the  *)
(* call (k = 0, before line 345): the engine it is given is an object of   *)
(* its own that holds the value of the caller's engine, which the caller   *)
(* stepped at line 345 and does not touch afterwards.  The calls of lines  *)
(* 381-409 are given the caller's new_engine of line 370.  The act is      *)
(* called on a game that is Playing, with a score that is not negative.    *)
(***************************************************************************)
C13_AsStated ==
    /\ live0.state_of_game = "Playing"
    /\ PlayerScore(live0, side) >= 0
    => \A d \in 2..Len(stack) :
           stack[d].k = 0 =>
               /\ stack[d].engine # stack[d - 1].engine
               /\ heap[stack[d].engine] = heap[stack[d - 1].engine]

(***************************************************************************)
(* C14: the expansion of DijkstraAgent::act terminates.  Every recursive   *)
(* call of simulation_dij has a cost strictly greater than its caller's,   *)
(* +4 for a dash and +1 for a move or a throw; a call that recurses has a  *)
(* cost below the bound, so the depth of the recursion is at most the      *)
(* bound plus one; and every step of act advances it: it moves act to a    *)
(* later phase, or moves the expansion to a later place of the call tree   *)
(* (the candidate index of act, then the candidate index of each call on   *)
(* the stack, compared in this order, a call that has returned counting    *)
(* as past its last candidate), or moves the selection loop to its next    *)
(* node.  Depth and indices are bounded, so no run of act is infinite.     *)
(* Its end is the return of line 496 or, when get_best returns no node,    *)
(* the panic of line 480 (C11).                                            *)
(***************************************************************************)
DijPhases == <<"dijkstra", "dij_loop", "select", "pick", "done">>

InDijkstra(p) == \E i \in 1..Len(DijPhases) : DijPhases[i] = p

Phase(p) == CHOOSE i \in 1..Len(DijPhases) : DijPhases[i] = p

\* the greatest value of a frame's k: one past the last candidate
MaxK == 2 * Len(Directions) + 1

MaxDepth == MaxCost + 1

\* the place of the frame at depth d; a frame that is not there has returned
Place(st, d) == IF d <= Len(st) THEN st[d].k ELSE MaxK + 1

RECURSIVE PlaceFrom(_, _, _)
PlaceFrom(st, d, acc) ==
    IF d > MaxDepth THEN acc
    ELSE PlaceFrom(st, d + 1, acc * (MaxK + 2) + Place(st, d))

\* the place of the expansion in the call tree, as a number
TreePlace(c, st) == PlaceFrom(st, 1, c)

CallCostStep(d) == IF stack[d].intent.type = "Dash" THEN 4 ELSE 1

C14_CostIncreases ==
    /\ \A d \in 2..Len(stack) :
           /\ stack[d].cost = stack[d - 1].cost + CallCostStep(d)
           /\ stack[d].cost > stack[d - 1].cost
    /\ \A d \in 1..Len(stack) :
           /\ stack[d].cost >= d - 1
           /\ stack[d].k \in 0..MaxK
           /\ (stack[d].k >= 1 => stack[d].cost < MaxCost)
    /\ Len(stack) <= MaxDepth
    /\ ci \in 0..MaxK
    /\ pick.i \in 0..(Len(best) + 1)

C14_Advances ==
    InDijkstra(pc) =>
        \/ Phase(pc') > Phase(pc)
        \/ /\ pc' = pc
           /\ pc = "dij_loop"
           /\ TreePlace(ci', stack') > TreePlace(ci, stack)
        \/ /\ pc' = pc
           /\ pc = "pick"
           /\ pick'.i > pick.i

C14_ExpansionTerminates ==
    /\ []C14_CostIncreases
    /\ [][C14_Advances]_vars

\* a call at depth 3 made for a dash by a call made for a move or a throw
C14_Witness ==
    /\ Len(stack) = 3
    /\ stack[3].intent.type = "Dash"
    /\ stack[3].cost = stack[2].cost + 4
    /\ stack[2].cost = stack[1].cost + 1

====
